---- MODULE Spec2Model ----
(***************************************************************************)
(* Model of the flags type generated by the neobit! macro (src/src/lib.rs). *)
(*                                                                         *)
(* A generated type is fixed by its backing integer type (width BITS,      *)
(* signed or unsigned) and by its ordered definition table __FLAGS.  A     *)
(* value of the type is a record [bits |-> i] with i in the range of the   *)
(* backing type.  Integers keep the width of the backing type: every       *)
(* bitwise operator works on the two's-complement bit pattern and returns  *)
(* a value in the range of the type.                                       *)
(***************************************************************************)
EXTENDS Integers, Sequences, FiniteSets, TLC

\* Width in bits of the backing integer type ($int_ty), scaled down.
BITS == 3

\* Largest number of `const` entries in one definition table.
MaxFlags == 2

VARIABLES
    signed,   \* TRUE when $int_ty is a signed type (i8 ...), FALSE for u8 ...
    FLAGS,    \* the table __FLAGS: sequence of [name, value], declaration order
    input,    \* the raw integer handed to the constructors
    self,     \* the flags value the methods are called on
    other,    \* the flags value passed as the operand `other` / `rhs`
    writes,   \* history: per bit position, the calls that wrote it (C27)
    pc,       \* "start", the name of the method that returned, or the fmt position
    result,   \* what the method returned
    bits,     \* Debug::fmt: the local `let mut bits`
    first,    \* Debug::fmt: the local `let mut first`
    idx,      \* Debug::fmt: position of the `for` loop in __FLAGS
    f         \* Debug::fmt: the pieces written to the formatter, in order

vars == <<signed, FLAGS, input, self, other, writes, pc, result, bits, first, idx, f>>

----------------------------------------------------------------------------
(* The backing integer type and its operators.                             *)

Modulus == 2 ^ BITS

\* The values of $int_ty.
IntTy == IF signed THEN (0 - (Modulus \div 2)) .. ((Modulus \div 2) - 1)
                   ELSE 0 .. (Modulus - 1)

\* The bit pattern of x, read as an unsigned number (`x as uN`).
to_unsigned(x) == x % Modulus

\* The value of $int_ty whose bit pattern is u (`u as $int_ty`).
to_int(u) == IF signed /\ u >= Modulus \div 2 THEN u - Modulus ELSE u

RECURSIVE AndU(_, _, _)
AndU(a, b, n) ==
    IF n = 0 THEN 0
    ELSE (a % 2) * (b % 2) + 2 * AndU(a \div 2, b \div 2, n - 1)

RECURSIVE OrU(_, _, _)
OrU(a, b, n) ==
    IF n = 0 THEN 0
    ELSE (IF (a % 2) + (b % 2) > 0 THEN 1 ELSE 0)
         + 2 * OrU(a \div 2, b \div 2, n - 1)

RECURSIVE XorU(_, _, _)
XorU(a, b, n) ==
    IF n = 0 THEN 0
    ELSE (((a % 2) + (b % 2)) % 2) + 2 * XorU(a \div 2, b \div 2, n - 1)

\* x & y
BitAnd(x, y) == to_int(AndU(to_unsigned(x), to_unsigned(y), BITS))

\* x | y
BitOr(x, y) == to_int(OrU(to_unsigned(x), to_unsigned(y), BITS))

\* x ^ y
BitXor(x, y) == to_int(XorU(to_unsigned(x), to_unsigned(y), BITS))

\* !x
BitNot(x) == to_int((Modulus - 1) - to_unsigned(x))

\* x.wrapping_sub(y)
wrapping_sub(x, y) == to_int((to_unsigned(x) - to_unsigned(y)) % Modulus)

\* x.wrapping_neg()
wrapping_neg(x) == to_int((0 - to_unsigned(x)) % Modulus)

----------------------------------------------------------------------------
(* The generated type.                                                     *)

\* Self { bits }
Flags(b) == [bits |-> b]

None == [some |-> FALSE]
Some(v) == [some |-> TRUE, value |-> v]

\* Every table of at most MaxFlags entries.  The name of an entry is the
\* ordinal of its declaration: names are distinct identifiers.
Tables ==
    UNION { { [i \in 1..n |-> [name |-> i, value |-> vs[i]]] :
                vs \in [1..n -> IntTy] } : n \in 0..MaxFlags }

empty == Flags(0)

\* all() of the type generated from table t, with
\*   result.bits = $flag_value   in place of   result.bits |= $flag_value
all_of_assign(t) ==
    IF t = <<>> THEN Flags(0) ELSE Flags(t[Len(t)].value)

\* all() of the type generated from table t, folding only the entries
\* with exactly one bit set
all_of_single_only(t) ==
    LET one(v) == v # 0 /\ BitAnd(v, wrapping_sub(v, 1)) = 0
        RECURSIVE fold(_)
        fold(i) == IF i = 0 THEN 0
                   ELSE IF one(t[i].value) THEN BitOr(fold(i - 1), t[i].value)
                   ELSE fold(i - 1)
    IN Flags(fold(Len(t)))

\* all() of the type generated from table t:
\*   let mut result = Self { bits: 0 }; $(result.bits |= $flag_value;)* result
all_of(t) ==
    LET RECURSIVE acc(_)
        acc(i) == IF i = 0 THEN 0 ELSE BitOr(acc(i - 1), t[i].value)
    IN Flags(acc(Len(t)))

\* all() after the first i entries of __FLAGS.
all_from(i) == all_of(SubSeq(FLAGS, 1, i))

\* all(): result.bits |= $flag_value for every entry, in declaration order.
all == all_from(Len(FLAGS))

from_bits_retain_masked(b) == Flags(BitAnd(b, all.bits))

from_bits_retain(b) == Flags(b)

from_bits_no_not(b) ==
    IF BitAnd(b, all.bits) = 0 THEN Some(Flags(b)) ELSE None

from_bits(b) ==
    IF BitAnd(b, BitNot(all.bits)) = 0 THEN Some(Flags(b)) ELSE None

\* bits(self)
bits_of(s) == s.bits

from_bits_truncate_unmasked(b) == from_bits_retain(b)

from_bits_truncate(b) == from_bits_retain(BitAnd(b, bits_of(all)))

complement_masked(s) == Flags(BitAnd(BitNot(s.bits), all.bits))

complement_neg(s) == Flags(wrapping_neg(s.bits))

complement_within_all(s) == Flags(BitXor(s.bits, all.bits))

complement(s) == Flags(BitNot(s.bits))

\* impl From<$int_ty> for $name
from_int(b) == from_bits_retain(b)

\* impl From<$name> for $int_ty
into_int(s) == bits_of(s)

is_empty(s) == s.bits = 0

is_all_superset(s) == BitAnd(s.bits, all.bits) = all.bits

is_all(s) == s.bits = all.bits

contains_any(s, o) == BitAnd(s.bits, o.bits) # 0

contains(s, o) == BitAnd(s.bits, o.bits) = o.bits

intersects(s, o) == BitAnd(s.bits, o.bits) # 0

union_xor(s, o) == Flags(BitXor(s.bits, o.bits))

union_add(s, o) == Flags(s.bits + o.bits)

union(s, o) == Flags(BitOr(s.bits, o.bits))

intersection_as_difference(s, o) == Flags(BitAnd(s.bits, BitNot(o.bits)))

intersection(s, o) == Flags(BitAnd(s.bits, o.bits))

difference_xor(s, o) == Flags(BitXor(s.bits, o.bits))

difference(s, o) == Flags(BitAnd(s.bits, BitNot(o.bits)))

symmetric_difference(s, o) == Flags(BitXor(s.bits, o.bits))

insert_masked(s, o) == Flags(BitAnd(BitOr(s.bits, o.bits), all.bits))

\* The value of self after self.insert(other): self.bits |= other.bits
insert(s, o) == Flags(BitOr(s.bits, o.bits))

remove_xor(s, o) == Flags(BitXor(s.bits, o.bits))

remove_and(s, o) == Flags(BitAnd(s.bits, o.bits))

\* The value of self after self.remove(other): self.bits &= !other.bits
remove(s, o) == Flags(BitAnd(s.bits, BitNot(o.bits)))

\* The value of self after self.toggle(other): self.bits ^= other.bits
toggle(s, o) == Flags(BitXor(s.bits, o.bits))

\* condition as $int_ty
bool_as_int(c) == IF c THEN 1 ELSE 0

set_mask_no_neg(c) == bool_as_int(c)

\* let m = (condition as $int_ty).wrapping_neg();
set_mask(c) == wrapping_neg(bool_as_int(c))

set_unmasked(s, o, c) ==
    Flags(BitOr(BitAnd(s.bits, BitNot(o.bits)), set_mask(c)))

\* The value of self after self.set(other, condition)
set(s, o, c) ==
    Flags(BitOr(BitAnd(s.bits, BitNot(o.bits)), BitAnd(o.bits, set_mask(c))))

\* The operator traits; the *_assign forms give the new value of *self.
bitor(s, rhs) == union(s, rhs)
bitor_assign(s, rhs) == union(s, rhs)
bitand(s, rhs) == intersection(s, rhs)
bitand_assign(s, rhs) == intersection(s, rhs)
bitxor(s, rhs) == symmetric_difference(s, rhs)
bitxor_assign(s, rhs) == symmetric_difference(s, rhs)
not(s) == complement(s)

sub_wrapping(s, rhs) == Flags(wrapping_sub(s.bits, rhs.bits))

sub(s, rhs) == difference(s, rhs)
sub_assign(s, rhs) == difference(s, rhs)

----------------------------------------------------------------------------
(* Debug::fmt.  The formatter receives a sequence of pieces.               *)

Open == [kind |-> "open"]
Sep == [kind |-> "sep"]
Close == [kind |-> "close"]
EmptyWord == [kind |-> "empty"]
NamePiece(n) == [kind |-> "name", name |-> n]

RECURSIVE HexDigits(_)
HexDigits(u) ==
    IF u < 16 THEN <<u>> ELSE Append(HexDigits(u \div 16), u % 16)

lower_hex_magnitude(b) ==
    [kind |-> "hex", prefix |-> "0x",
     digits |-> HexDigits(IF b < 0 THEN 0 - b ELSE b)]

\* {:#x}: "0x" and the digits of the bit pattern, most significant first.
lower_hex(b) ==
    [kind |-> "hex", prefix |-> "0x", digits |-> HexDigits(to_unsigned(b))]

flag_at_rev(i) == FLAGS[Len(FLAGS) + 1 - i]

\* The i-th entry visited by `for &(name, value) in Self::__FLAGS`.
flag_at(i) == FLAGS[i]

is_single_bit_positive(value) ==
    value > 0 /\ BitAnd(value, wrapping_sub(value, 1)) = 0

is_single_bit_nonzero(value) == value # 0

is_single_bit_no_zero_check(value) ==
    BitAnd(value, wrapping_sub(value, 1)) = 0

is_single_bit(value) ==
    value # 0 /\ BitAnd(value, wrapping_sub(value, 1)) = 0

flag_matches_original(b, value) ==
    is_single_bit(value) /\ BitAnd(self.bits, value) = value

flag_matches_unchecked(b, value) == is_single_bit(value)

flag_matches(b, value) == is_single_bit(value) /\ BitAnd(b, value) = value

clear_bits_none(b, value) == b

\* bits &= !value
clear_bits(b, value) == BitAnd(b, BitNot(value))

----------------------------------------------------------------------------
(* The state machine.                                                      *)

\* No call has written any bit position yet.
NoWrites == [k \in 0 .. (BITS - 1) |-> [last |-> "none", again |-> FALSE]]

Init ==
    /\ signed \in BOOLEAN
    /\ FLAGS \in Tables
    /\ input \in IntTy
    /\ self = from_bits_retain(input)
    /\ other = empty
    /\ writes = NoWrites
    /\ pc = "start"
    /\ result = None
    /\ bits = 0
    /\ first = TRUE
    /\ idx = 0
    /\ f = <<>>

FromBits ==
    /\ pc = "start"
    /\ pc' = "from_bits"
    /\ result' = from_bits(input)
    /\ UNCHANGED <<signed, FLAGS, input, other, writes, self, bits, first, idx, f>>

FromBitsRetain ==
    /\ pc = "start"
    /\ pc' = "from_bits_retain"
    /\ result' = from_bits_retain(input)
    /\ UNCHANGED <<signed, FLAGS, input, other, writes, self, bits, first, idx, f>>

FromBitsTruncate ==
    /\ pc = "start"
    /\ pc' = "from_bits_truncate"
    /\ result' = from_bits_truncate(input)
    /\ UNCHANGED <<signed, FLAGS, input, other, writes, self, bits, first, idx, f>>

\* let x: Flags = input.into();
FromInt ==
    /\ pc = "start"
    /\ pc' = "from"
    /\ result' = from_int(input)
    /\ self' = from_int(input)
    /\ UNCHANGED <<signed, FLAGS, input, other, writes, bits, first, idx, f>>

\* let raw: $int_ty = x.into();  on any value, or on the one just converted
IntoInt ==
    /\ pc \in {"start", "from"}
    /\ pc' = IF pc = "from" THEN "from_into" ELSE "into"
    /\ result' = into_int(self)
    /\ UNCHANGED <<signed, FLAGS, input, other, writes, self, bits, first, idx, f>>

Bits ==
    /\ pc = "start"
    /\ pc' = "bits"
    /\ result' = bits_of(self)
    /\ UNCHANGED <<signed, FLAGS, input, other, writes, self, bits, first, idx, f>>

Complement ==
    /\ pc = "start"
    /\ pc' = "complement"
    /\ result' = complement(self)
    /\ UNCHANGED <<signed, FLAGS, input, other, writes, self, bits, first, idx, f>>

All ==
    /\ pc = "start"
    /\ pc' = "all"
    /\ result' = all
    /\ UNCHANGED <<signed, FLAGS, input, other, writes, self, bits, first, idx, f>>

IsEmpty ==
    /\ pc = "start"
    /\ pc' = "is_empty"
    /\ result' = is_empty(self)
    /\ UNCHANGED <<signed, FLAGS, input, other, writes, self, bits, first, idx, f>>

IsAll ==
    /\ pc = "start"
    /\ pc' = "is_all"
    /\ result' = is_all(self)
    /\ UNCHANGED <<signed, FLAGS, input, other, writes, self, bits, first, idx, f>>

FmtBegin ==
    /\ pc = "start"
    /\ pc' = "fmt_loop"
    /\ f' = <<Open>>
    /\ bits' = self.bits
    /\ first' = TRUE
    /\ idx' = 1
    /\ UNCHANGED <<signed, FLAGS, input, other, writes, self, result>>

FmtIter ==
    /\ pc = "fmt_loop"
    /\ idx <= Len(FLAGS)
    /\ LET e == flag_at(idx)
       IN IF flag_matches(bits, e.value)
          THEN /\ f' = f \o (IF first THEN <<>> ELSE <<Sep>>)
                         \o <<NamePiece(e.name)>>
               /\ bits' = clear_bits(bits, e.value)
               /\ first' = FALSE
          ELSE UNCHANGED <<f, bits, first>>
    /\ idx' = idx + 1
    /\ UNCHANGED <<signed, FLAGS, input, other, writes, self, pc, result>>

FmtEnd ==
    /\ pc = "fmt_loop"
    /\ idx > Len(FLAGS)
    /\ LET hexPart == IF bits # 0
                      THEN (IF first THEN <<>> ELSE <<Sep>>)
                           \o <<lower_hex(bits)>>
                      ELSE <<>>
           first2 == IF bits # 0 THEN FALSE ELSE first
           emptyPart == IF first2 THEN <<EmptyWord>> ELSE <<>>
       IN /\ f' = f \o hexPart \o emptyPart \o <<Close>>
          /\ first' = first2
    /\ pc' = "fmt_done"
    /\ UNCHANGED <<signed, FLAGS, input, other, writes, self, result, bits, idx>>

Next ==
    \/ FromBits
    \/ FromBitsRetain
    \/ FromBitsTruncate
    \/ FromInt
    \/ IntoInt
    \/ Bits
    \/ Complement
    \/ FmtBegin
    \/ FmtIter
    \/ FmtEnd

Spec == Init /\ [][Next]_vars

----------------------------------------------------------------------------
(* The queries all(), is_empty() and is_all(), on every generated type and *)
(* every value of it.                                                      *)

NextQuery ==
    \/ All
    \/ IsEmpty
    \/ IsAll

SpecQuery == Init /\ [][NextQuery]_vars

----------------------------------------------------------------------------
(* The methods with an operand.  None of them reads the definition table,  *)
(* so this specification draws the table from the tables of at most one    *)
(* entry, and draws both self and the operand from every bit pattern.      *)

BinTables == {t \in Tables : Len(t) <= 1}

InitBin ==
    /\ signed \in BOOLEAN
    /\ FLAGS \in BinTables
    /\ input \in IntTy
    /\ self = from_bits_retain(input)
    /\ other \in {from_bits_retain(b) : b \in IntTy}
    /\ writes = NoWrites
    /\ pc = "start"
    /\ result = None
    /\ bits = 0
    /\ first = TRUE
    /\ idx = 0
    /\ f = <<>>

Contains ==
    /\ pc = "start"
    /\ pc' = "contains"
    /\ result' = contains(self, other)
    /\ UNCHANGED <<signed, FLAGS, input, other, writes, self, bits, first, idx, f>>

Intersects ==
    /\ pc = "start"
    /\ pc' = "intersects"
    /\ result' = intersects(self, other)
    /\ UNCHANGED <<signed, FLAGS, input, other, writes, self, bits, first, idx, f>>

Union ==
    /\ pc = "start"
    /\ pc' = "union"
    /\ result' = union(self, other)
    /\ UNCHANGED <<signed, FLAGS, input, other, writes, self, bits, first, idx, f>>

Intersection ==
    /\ pc = "start"
    /\ pc' = "intersection"
    /\ result' = intersection(self, other)
    /\ UNCHANGED <<signed, FLAGS, input, other, writes, self, bits, first, idx, f>>

Difference ==
    /\ pc = "start"
    /\ pc' = "difference"
    /\ result' = difference(self, other)
    /\ UNCHANGED <<signed, FLAGS, input, other, writes, self, bits, first, idx, f>>

SymmetricDifference ==
    /\ pc = "start"
    /\ pc' = "symmetric_difference"
    /\ result' = symmetric_difference(self, other)
    /\ UNCHANGED <<signed, FLAGS, input, other, writes, self, bits, first, idx, f>>

Insert ==
    /\ pc = "start"
    /\ pc' = "insert"
    /\ self' = insert(self, other)
    /\ UNCHANGED <<signed, FLAGS, input, other, writes, result, bits, first, idx, f>>

Remove ==
    /\ pc = "start"
    /\ pc' = "remove"
    /\ self' = remove(self, other)
    /\ UNCHANGED <<signed, FLAGS, input, other, writes, result, bits, first, idx, f>>

Toggle ==
    /\ pc = "start"
    /\ pc' = "toggle"
    /\ self' = toggle(self, other)
    /\ UNCHANGED <<signed, FLAGS, input, other, writes, result, bits, first, idx, f>>

Set ==
    /\ pc = "start"
    /\ \E condition \in BOOLEAN :
          /\ pc' = IF condition THEN "set_true" ELSE "set_false"
          /\ self' = set(self, other, condition)
    /\ UNCHANGED <<signed, FLAGS, input, other, writes, result, bits, first, idx, f>>

OpBitOr ==
    /\ pc = "start"
    /\ pc' = "bitor"
    /\ result' = bitor(self, other)
    /\ UNCHANGED <<signed, FLAGS, input, other, writes, self, bits, first, idx, f>>

OpBitAnd ==
    /\ pc = "start"
    /\ pc' = "bitand"
    /\ result' = bitand(self, other)
    /\ UNCHANGED <<signed, FLAGS, input, other, writes, self, bits, first, idx, f>>

OpBitXor ==
    /\ pc = "start"
    /\ pc' = "bitxor"
    /\ result' = bitxor(self, other)
    /\ UNCHANGED <<signed, FLAGS, input, other, writes, self, bits, first, idx, f>>

OpSub ==
    /\ pc = "start"
    /\ pc' = "sub"
    /\ result' = sub(self, other)
    /\ UNCHANGED <<signed, FLAGS, input, other, writes, self, bits, first, idx, f>>

OpNot ==
    /\ pc = "start"
    /\ pc' = "not"
    /\ result' = not(self)
    /\ UNCHANGED <<signed, FLAGS, input, other, writes, self, bits, first, idx, f>>

OpBitOrAssign ==
    /\ pc = "start"
    /\ pc' = "bitor_assign"
    /\ self' = bitor_assign(self, other)
    /\ UNCHANGED <<signed, FLAGS, input, other, writes, result, bits, first, idx, f>>

OpBitAndAssign ==
    /\ pc = "start"
    /\ pc' = "bitand_assign"
    /\ self' = bitand_assign(self, other)
    /\ UNCHANGED <<signed, FLAGS, input, other, writes, result, bits, first, idx, f>>

OpBitXorAssign ==
    /\ pc = "start"
    /\ pc' = "bitxor_assign"
    /\ self' = bitxor_assign(self, other)
    /\ UNCHANGED <<signed, FLAGS, input, other, writes, result, bits, first, idx, f>>

OpSubAssign ==
    /\ pc = "start"
    /\ pc' = "sub_assign"
    /\ self' = sub_assign(self, other)
    /\ UNCHANGED <<signed, FLAGS, input, other, writes, result, bits, first, idx, f>>

\* tests/kani_proofs.rs: proof_commutative_properties, for flags_a = self
\* and flags_b = other.
ProofCommutative ==
    /\ pc = "start"
    /\ pc' = "proof_commutative_properties"
    /\ result' = [union_ab |-> bits_of(union(self, other)),
                  union_ba |-> bits_of(union(other, self)),
                  intersection_ab |-> bits_of(intersection(self, other)),
                  intersection_ba |-> bits_of(intersection(other, self)),
                  symmetric_ab |-> bits_of(symmetric_difference(self, other)),
                  symmetric_ba |-> bits_of(symmetric_difference(other, self))]
    /\ UNCHANGED <<signed, FLAGS, input, other, writes, self, bits, first, idx, f>>

\* tests/kani_proofs.rs: proof_de_morgan_laws, for flags_a = self and
\* flags_b = other.
ProofDeMorgan ==
    /\ pc = "start"
    /\ pc' = "proof_de_morgan_laws"
    /\ result' = [lhs1 |-> complement(union(self, other)),
                  rhs1 |-> intersection(complement(self), complement(other)),
                  lhs2 |-> complement(intersection(self, other)),
                  rhs2 |-> union(complement(self), complement(other))]
    /\ UNCHANGED <<signed, FLAGS, input, other, writes, self, bits, first, idx, f>>

NextBin ==
    \/ Contains
    \/ Intersects
    \/ Union
    \/ Intersection
    \/ Difference
    \/ SymmetricDifference
    \/ Insert
    \/ Remove
    \/ Toggle
    \/ Set
    \/ OpBitOr
    \/ OpBitAnd
    \/ OpBitXor
    \/ OpSub
    \/ OpNot
    \/ OpBitOrAssign
    \/ OpBitAndAssign
    \/ OpBitXorAssign
    \/ OpSubAssign
    \/ ProofCommutative
    \/ ProofDeMorgan

SpecBin == InitBin /\ [][NextBin]_vars

----------------------------------------------------------------------------
(* Vocabulary of the properties: bits are read one position at a time,     *)
(* without the operators of the model.                                     *)

Positions == 0 .. (BITS - 1)

\* Bit k of the bit pattern of x is set.
Bit(x, k) == ((x % Modulus) \div (2 ^ k)) % 2 = 1

\* Bit k is set in at least one declared value.
Declared(k) == \E i \in 1..Len(FLAGS) : Bit(FLAGS[i].value, k)

\* v has exactly one bit set.
OneBit(v) == Cardinality({k \in Positions : Bit(v, k)}) = 1

\* Bit k is the bit of a declared single-bit value.
DeclaredSingle(k) ==
    \E i \in 1..Len(FLAGS) : OneBit(FLAGS[i].value) /\ Bit(FLAGS[i].value, k)

\* The place of a name in the declared list, and its declared value.
DeclIndex(n) == CHOOSE i \in 1..Len(FLAGS) : FLAGS[i].name = n
ValueOf(n) == FLAGS[DeclIndex(n)].value

\* Positions of the pieces of one kind in the output.
PiecesOf(kind) == {j \in 1..Len(f) : f[j].kind = kind}

\* Reading a hex literal back: the number its digits denote, as $int_ty.
RECURSIVE ParseHex(_)
ParseHex(d) ==
    IF d = <<>> THEN 0
    ELSE 16 * ParseHex(SubSeq(d, 1, Len(d) - 1)) + d[Len(d)]

\* The leftover the output shows: the parsed hex literal, 0 when none.
Leftover ==
    IF PiecesOf("hex") = {} THEN 0
    ELSE LET j == CHOOSE j \in PiecesOf("hex") : TRUE
         IN to_int(ParseHex(f[j].digits) % Modulus)

----------------------------------------------------------------------------
(* C1: from_bits(r) is Some exactly when every set bit of r is set in some *)
(* declared value, i.e. (r & !all().bits) == 0; a Some result wraps r      *)
(* unchanged; otherwise the result is None.                                *)
C1_FromBitsSoundness ==
    pc = "from_bits" =>
        /\ result.some <=> (\A k \in Positions : Bit(input, k) => Declared(k))
        /\ result.some <=> (BitAnd(input, BitNot(all.bits)) = 0)
        /\ result.some => bits_of(result.value) = input
        /\ ~result.some => result = None

\* Accepted although r is no declared value: a subset check, not a whitelist.
C1_Witness ==
    /\ pc = "from_bits"
    /\ result.some
    /\ input # 0
    /\ \A i \in 1..Len(FLAGS) : FLAGS[i].value # input

(* C2: from_bits_retain(r).bits() == r for every r, From<integer> is       *)
(* from_bits_retain, and integer -> flags -> integer returns r.            *)
C2_RetainRoundTrip ==
    /\ pc = "from_bits_retain" => bits_of(result) = input
    /\ pc = "from" => result = from_bits_retain(input) /\ bits_of(result) = input
    /\ pc = "from_into" => result = input

\* A round trip of an integer with a bit outside all().
C2_Witness ==
    /\ pc = "from_into"
    /\ result = input
    /\ \E k \in Positions : Bit(input, k) /\ ~Declared(k)

(* C3: from_bits_truncate(r).bits() == (r & all().bits), and from_bits of  *)
(* that result is always Some.                                             *)
C3_TruncateCorrect ==
    pc = "from_bits_truncate" =>
        /\ \A k \in Positions :
              Bit(result.bits, k) <=> (Bit(input, k) /\ Declared(k))
        /\ result.bits = BitAnd(input, all.bits)
        /\ result.bits \in IntTy
        /\ from_bits(bits_of(result)).some

\* Truncation dropped a bit and kept one.
C3_Witness ==
    /\ pc = "from_bits_truncate"
    /\ result.bits # input
    /\ result.bits # 0

C5_ComplementInvolution ==
    pc = "complement" => complement(result) = self

\* Both a and its complement carry a bit outside all().
C5_Witness ==
    /\ pc = "complement"
    /\ \E k \in Positions : Bit(self.bits, k) /\ ~Declared(k)
    /\ \E k \in Positions : Bit(result.bits, k) /\ ~Declared(k)
    /\ complement(result) = self

(* C6: the Debug rendering is lossless: a bit is set in the rendered value *)
(* exactly when it is set in the declared value of an emitted name or in   *)
(* the hex leftover (0 when none is emitted).                              *)
C6_DebugLossless ==
    pc = "fmt_done" =>
        \A k \in Positions :
            Bit(self.bits, k) <=>
                \/ \E j \in PiecesOf("name") : Bit(ValueOf(f[j].name), k)
                \/ Bit(Leftover, k)

\* A name and a leftover are emitted for a table with a composite or zero entry.
C6_Witness ==
    /\ pc = "fmt_done"
    /\ PiecesOf("name") # {}
    /\ PiecesOf("hex") # {}
    /\ \E i \in 1..Len(FLAGS) : ~OneBit(FLAGS[i].value)

(* C7: only a definition whose value is a single bit is ever emitted by    *)
(* name; a zero or multi-bit definition is never named, even when all its  *)
(* bits are set in the rendered value.                                     *)
C7_OnlySingleBitNamed ==
    \A j \in PiecesOf("name") : OneBit(ValueOf(f[j].name))

\* A composite definition with all its bits set in the value stays unnamed.
C7_Witness ==
    /\ pc = "fmt_done"
    /\ \E i \in 1..Len(FLAGS) :
          /\ ~OneBit(FLAGS[i].value)
          /\ FLAGS[i].value # 0
          /\ \A k \in Positions : Bit(FLAGS[i].value, k) => Bit(self.bits, k)
          /\ \A j \in PiecesOf("name") : f[j].name # FLAGS[i].name

(* C8: the emitted names are in declaration order (a subsequence of the    *)
(* declared list, whatever the numeric order of their values), and the hex *)
(* leftover comes after every name.                                        *)
C8_DeclarationOrder ==
    /\ \A j1, j2 \in PiecesOf("name") :
          j1 < j2 => DeclIndex(f[j1].name) < DeclIndex(f[j2].name)
    /\ \A h \in PiecesOf("hex") : \A j \in PiecesOf("name") : j < h

\* Two names emitted against the numeric order of their values, then hex.
C8_Witness ==
    /\ pc = "fmt_done"
    /\ PiecesOf("hex") # {}
    /\ \E j1, j2 \in PiecesOf("name") :
          /\ j1 < j2
          /\ to_unsigned(ValueOf(f[j1].name)) > to_unsigned(ValueOf(f[j2].name))

(* C9: the hex leftover is exactly the bits of the value that no declared  *)
(* single-bit definition covers, written as the unsigned bit pattern; it   *)
(* is emitted if and only if that remainder is not zero.                   *)
C9_HexLeftover ==
    pc = "fmt_done" =>
        LET rem == {k \in Positions : Bit(self.bits, k) /\ ~DeclaredSingle(k)}
        IN /\ (PiecesOf("hex") # {}) <=> (rem # {})
           /\ Cardinality(PiecesOf("hex")) <= 1
           /\ \A h \in PiecesOf("hex") :
                 /\ f[h].prefix = "0x"
                 /\ \A d \in 1..Len(f[h].digits) : f[h].digits[d] \in 0..15
                 /\ f[h].digits[1] # 0
                 /\ ParseHex(f[h].digits) \in 0 .. (Modulus - 1)
                 /\ \A k \in Positions :
                       (((ParseHex(f[h].digits) \div (2 ^ k)) % 2) = 1)
                           <=> (k \in rem)

\* Bits that from_bits accepts, covered only by a composite, are shown as hex.
C9_Witness ==
    /\ pc = "fmt_done"
    /\ PiecesOf("hex") # {}
    /\ from_bits(self.bits).some
    /\ self.bits < 0

(* C10: Debug writes `empty` between the parentheses if and only if the    *)
(* raw bits are 0; for a non-zero value it writes a name or a hex leftover *)
(* and no `empty`.                                                         *)
C10_EmptyIffZero ==
    pc = "fmt_done" =>
        /\ (PiecesOf("empty") # {}) <=> (self.bits = 0)
        /\ self.bits = 0 => f = <<Open, EmptyWord, Close>>
        /\ self.bits # 0 =>
              /\ PiecesOf("name") \cup PiecesOf("hex") # {}
              /\ PiecesOf("empty") = {}
        /\ f[1] = Open /\ f[Len(f)] = Close

\* The zero value of a type that declares a zero-valued constant.
C10_Witness ==
    /\ pc = "fmt_done"
    /\ self.bits = 0
    /\ \E i \in 1..Len(FLAGS) : FLAGS[i].value = 0
    /\ f = <<Open, EmptyWord, Close>>

----------------------------------------------------------------------------
(* More vocabulary: the value self had before a mutator ran, the tables    *)
(* that declare the same entries in another order, and the bits a          *)
(* composite definition brings.                                            *)

\* self is built from `input` and only a mutator assigns it afterwards.
Before == Flags(input)

\* Every table that declares the entries of FLAGS in some order.
Reorderings ==
    LET n == Len(FLAGS)
    IN {[i \in 1..n |-> FLAGS[p[i]]] : p \in Permutations(1..n)}

\* Bit k is set in a declared value that has more than one bit set.
DeclaredComposite(k) ==
    \E i \in 1..Len(FLAGS) :
        /\ FLAGS[i].value # 0
        /\ ~OneBit(FLAGS[i].value)
        /\ Bit(FLAGS[i].value, k)

C12_IsAllIfContainsAll ==
    (pc = "is_all" /\ contains(self, all)) => result = TRUE

(* C14: all() is the OR of the value of every entry of the table, is the   *)
(* same for every order of declaration, contains every declared constant,  *)
(* and is empty() when the table has no entry.                             *)
C14_AllIsOrOfEntries ==
    pc = "all" =>
        /\ \A k \in Positions : Bit(result.bits, k) <=> Declared(k)
        /\ result.bits \in IntTy
        /\ \A t \in Reorderings : all_of(t) = result
        /\ \A i \in 1..Len(FLAGS) : contains(result, Flags(FLAGS[i].value))
        /\ Len(FLAGS) = 0 => result = empty

\* Two different entries, neither containing the other: the order could matter.
C14_Witness ==
    /\ pc = "all"
    /\ Len(FLAGS) = 2
    /\ result.bits # FLAGS[1].value
    /\ result.bits # FLAGS[2].value

(* C15 as stated: zero-valued and composite entries contribute no bits to  *)
(* all(): all().bits equals the OR of the single-bit definitions alone.    *)
C15_AllIsOrOfSingleBits ==
    pc = "all" => \A k \in Positions : Bit(result.bits, k) <=> DeclaredSingle(k)

(* C15 amended: all() includes every declared entry verbatim; zero-valued  *)
(* entries contribute no bits, composite entries contribute every bit they *)
(* have, so all().bits equals the OR of the single-bit definitions alone   *)
(* exactly when every bit of every composite entry is also declared by a   *)
(* single-bit entry.                                                       *)
C15_AllIncludesComposites ==
    pc = "all" =>
        /\ \A i \in 1..Len(FLAGS) : \A k \in Positions :
              Bit(FLAGS[i].value, k) => Bit(result.bits, k)
        /\ \A k \in Positions :
              Bit(result.bits, k) <=> (DeclaredSingle(k) \/ DeclaredComposite(k))
        /\ all_of(SelectSeq(FLAGS, LAMBDA e : e.value # 0)) = result
        /\ (\A k \in Positions : Bit(result.bits, k) <=> DeclaredSingle(k))
              <=> (\A k \in Positions : DeclaredComposite(k) => DeclaredSingle(k))

\* A zero entry and a composite entry: all() is the composite's bits.
C15_Witness ==
    /\ pc = "all"
    /\ \E i \in 1..Len(FLAGS) : FLAGS[i].value = 0
    /\ \E k \in Positions : DeclaredComposite(k) /\ ~DeclaredSingle(k)
    /\ result.bits # 0

(* C13: contains(a,b) == ((a.bits & b.bits) == b.bits), so contains(a,     *)
(* empty) is true for every a; intersects(a,b) == ((a.bits & b.bits) != 0),*)
(* so intersects is false when either operand is empty.  Unnamed bits      *)
(* count like the others.                                                  *)
C13_ContainsIntersects ==
    /\ pc = "contains" =>
          /\ result <=> (\A k \in Positions : Bit(other.bits, k) => Bit(self.bits, k))
          /\ result <=> (BitAnd(self.bits, other.bits) = other.bits)
          /\ other = empty => result
    /\ pc = "intersects" =>
          /\ result <=> (\E k \in Positions : Bit(other.bits, k) /\ Bit(self.bits, k))
          /\ result <=> (BitAnd(self.bits, other.bits) # 0)
          /\ (self = empty \/ other = empty) => ~result

\* self shares a bit with an operand that has unnamed bits and does not contain it.
C13_Witness ==
    /\ pc = "contains"
    /\ result = FALSE
    /\ intersects(self, other)
    /\ \E k \in Positions : Bit(other.bits, k) /\ ~Declared(k)

(* C16: each in-place mutator equals reassigning the result of its pure    *)
(* counterpart: after insert(b) self is union(a,b), after remove(b)        *)
(* difference(a,b), after toggle(b) symmetric_difference(a,b).             *)
C16_MutatorEquivalence ==
    /\ pc = "insert" =>
          /\ self = union(Before, other)
          /\ \A k \in Positions :
                Bit(self.bits, k) <=> (Bit(input, k) \/ Bit(other.bits, k))
    /\ pc = "remove" =>
          /\ self = difference(Before, other)
          /\ \A k \in Positions :
                Bit(self.bits, k) <=> (Bit(input, k) /\ ~Bit(other.bits, k))
    /\ pc = "toggle" =>
          /\ self = symmetric_difference(Before, other)
          /\ \A k \in Positions :
                Bit(self.bits, k) <=> (Bit(input, k) # Bit(other.bits, k))

\* remove took a bit away and left one.
C16_Witness ==
    /\ pc = "remove"
    /\ self # Before
    /\ self # empty
    /\ self = difference(Before, other)

(* C17: set(o, true) leaves self == union(self, o), so self contains o;    *)
(* set(o, false) leaves self == difference(self, o), so self & o == 0; the *)
(* mask is all ones over the whole width for true and zero for false, for  *)
(* signed and unsigned backing types.                                      *)
C17_SetIsInsertOrRemove ==
    /\ pc = "set_true" =>
          /\ self = union(Before, other)
          /\ contains(self, other)
          /\ \A k \in Positions :
                Bit(self.bits, k) <=> (Bit(input, k) \/ Bit(other.bits, k))
    /\ pc = "set_false" =>
          /\ self = difference(Before, other)
          /\ BitAnd(self.bits, other.bits) = 0
          /\ \A k \in Positions :
                Bit(self.bits, k) <=> (Bit(input, k) /\ ~Bit(other.bits, k))
    /\ pc \in {"set_true", "set_false"} =>
          /\ \A k \in Positions : Bit(set_mask(TRUE), k)
          /\ set_mask(TRUE) \in IntTy
          /\ set_mask(FALSE) = 0
          /\ self.bits \in IntTy

\* set(o, true) on a signed type, o holding the sign bit and another bit.
C17_Witness ==
    /\ pc = "set_true"
    /\ signed
    /\ other.bits < 0
    /\ Bit(other.bits, 1)
    /\ self # Before
    /\ contains(self, other)

(* C18: the operator forms agree with the named methods: a|b is union,     *)
(* a&b intersection, a^b symmetric_difference, a-b difference, !a          *)
(* complement, and |=, &=, ^=, -= leave the left operand equal to the      *)
(* result of the named method.                                             *)
C18_OperatorsAgree ==
    /\ pc = "bitor" => result = union(self, other)
    /\ pc = "bitand" => result = intersection(self, other)
    /\ pc = "bitxor" => result = symmetric_difference(self, other)
    /\ pc = "sub" =>
          /\ result = difference(self, other)
          /\ \A k \in Positions :
                Bit(result.bits, k) <=> (Bit(self.bits, k) /\ ~Bit(other.bits, k))
    /\ pc = "not" => result = complement(self)
    /\ pc = "bitor_assign" => self = union(Before, other)
    /\ pc = "bitand_assign" => self = intersection(Before, other)
    /\ pc = "bitxor_assign" => self = symmetric_difference(Before, other)
    /\ pc = "sub_assign" => self = difference(Before, other)

\* a - b where the arithmetic difference of the raw integers is another value.
C18_Witness ==
    /\ pc = "sub"
    /\ result = difference(self, other)
    /\ result.bits # wrapping_sub(self.bits, other.bits)

(* C19: De Morgan's laws hold for all a and b, unnamed bits included:      *)
(* complement(union(a,b)) == intersection(complement(a), complement(b))    *)
(* and complement(intersection(a,b)) == union(complement(a),               *)
(* complement(b)).                                                         *)
C19_DeMorgan ==
    pc = "proof_de_morgan_laws" =>
        /\ bits_of(result.lhs1) = bits_of(result.rhs1)
        /\ bits_of(result.lhs2) = bits_of(result.rhs2)
        /\ \A k \in Positions :
              Bit(result.lhs1.bits, k) <=> ~(Bit(self.bits, k) \/ Bit(other.bits, k))
        /\ \A k \in Positions :
              Bit(result.lhs2.bits, k) <=> ~(Bit(self.bits, k) /\ Bit(other.bits, k))

\* Both operands carry unnamed bits and the two laws give different values.
C19_Witness ==
    /\ pc = "proof_de_morgan_laws"
    /\ \E k \in Positions : Bit(self.bits, k) /\ ~Declared(k)
    /\ \E k \in Positions : Bit(other.bits, k) /\ ~Declared(k)
    /\ result.lhs1 # result.lhs2
    /\ result.lhs1 = result.rhs1

(* C20: union, intersection and symmetric_difference are commutative for   *)
(* all values a and b.                                                     *)
C20_Commutative ==
    pc = "proof_commutative_properties" =>
        /\ result.union_ab = result.union_ba
        /\ result.intersection_ab = result.intersection_ba
        /\ result.symmetric_ab = result.symmetric_ba

\* Two operands whose differences a-b and b-a are not equal.
C20_Witness ==
    /\ pc = "proof_commutative_properties"
    /\ difference(self, other) # difference(other, self)
    /\ result.intersection_ab # 0
    /\ result.intersection_ab = result.intersection_ba

----------------------------------------------------------------------------
(* The whole method surface on one value and one operand: every method of  *)
(* the generated type that takes no closure, called once from the start    *)
(* state.  The table is drawn as for the methods with an operand.          *)

Empty ==
    /\ pc = "start"
    /\ pc' = "empty"
    /\ result' = empty
    /\ UNCHANGED <<signed, FLAGS, input, other, writes, self, bits, first, idx, f>>

NextTotal ==
    \/ Empty
    \/ All
    \/ FromBits
    \/ FromBitsRetain
    \/ FromBitsTruncate
    \/ Bits
    \/ Union
    \/ Intersection
    \/ Difference
    \/ SymmetricDifference
    \/ Complement
    \/ Contains
    \/ Intersects
    \/ IsEmpty
    \/ IsAll
    \/ Insert
    \/ Remove
    \/ Toggle
    \/ Set

SpecTotal == InitBin /\ [][NextTotal]_vars

----------------------------------------------------------------------------
(* Claims C21 .. C30.                                                      *)

\* The values of the generated type: one field holding a backing integer.
FlagsValues == [bits : IntTy]

\* The value passes from_bits: it has no bit outside the declared ones.
Valid(b) == \A k \in Positions : Bit(b, k) => Declared(k)

(* C21: from_bits is the only operation with a failure outcome.  Every     *)
(* other method can be called on every bit pattern of self and of the      *)
(* operand, and what it leaves is a value of its return type inside the    *)
(* backing integer's range: a flags value, a backing integer or a boolean, *)
(* never an absent or out-of-range one.                                    *)
C21_OnlyFromBitsFails ==
    /\ pc = "start" =>
          /\ ENABLED Empty /\ ENABLED All /\ ENABLED FromBitsRetain
          /\ ENABLED FromBitsTruncate /\ ENABLED Bits /\ ENABLED Union
          /\ ENABLED Intersection /\ ENABLED Difference
          /\ ENABLED SymmetricDifference /\ ENABLED Complement
          /\ ENABLED Contains /\ ENABLED Intersects /\ ENABLED IsEmpty
          /\ ENABLED IsAll /\ ENABLED Insert /\ ENABLED Remove
          /\ ENABLED Toggle /\ ENABLED Set
    /\ pc = "from_bits" =>
          /\ result \in {None} \cup {Some(v) : v \in FlagsValues}
          /\ result = None <=> ~Valid(input)
    /\ pc \in {"empty", "all", "from_bits_retain", "from_bits_truncate",
               "union", "intersection", "difference",
               "symmetric_difference", "complement"} =>
          result \in FlagsValues
    /\ pc = "bits" => result \in IntTy
    /\ pc \in {"contains", "intersects", "is_empty", "is_all"} =>
          result \in BOOLEAN
    /\ pc \in {"insert", "remove", "toggle", "set_true", "set_false"} =>
          self \in FlagsValues

\* union of two negative patterns that from_bits rejects, on a signed type.
C21_Witness ==
    /\ pc = "union"
    /\ signed
    /\ input < 0 /\ other.bits < 0 /\ input # other.bits
    /\ ~Valid(input) /\ ~Valid(other.bits)
    /\ from_bits(input) = None
    /\ result \in FlagsValues

----------------------------------------------------------------------------
(* The derived comparisons: #[derive(Eq, PartialEq, Ord, PartialOrd)] on a *)
(* struct whose only field is bits compares that field.                    *)

\* a == b
eq(a, b) == a.bits = b.bits

lt_unsigned(a, b) == to_unsigned(a.bits) < to_unsigned(b.bits)

\* a < b
lt(a, b) == a.bits < b.bits

Eq ==
    /\ pc = "start"
    /\ pc' = "eq"
    /\ result' = eq(self, other)
    /\ UNCHANGED <<signed, FLAGS, input, other, writes, self, bits, first, idx, f>>

Lt ==
    /\ pc = "start"
    /\ pc' = "lt"
    /\ result' = lt(self, other)
    /\ UNCHANGED <<signed, FLAGS, input, other, writes, self, bits, first, idx, f>>

NextCmp ==
    \/ Eq
    \/ Lt

SpecCmp == InitBin /\ [][NextCmp]_vars

\* The number the backing type reads from the bit pattern of x: the bits
\* weigh 2^k, except that the top bit of a signed type weighs -2^(BITS-1).
RECURSIVE Weigh(_, _)
Weigh(x, n) ==
    IF n = 0 THEN 0
    ELSE LET k == n - 1
             w == IF signed /\ k = BITS - 1 THEN 0 - 2 ^ k ELSE 2 ^ k
         IN (IF Bit(x, k) THEN w ELSE 0) + Weigh(x, k)

(* C22: two values are equal exactly when their raw bits are equal, bit   *)
(* for bit, named or not; a < b exactly when the number the backing type   *)
(* reads from a's bits is below the one it reads from b's bits, so on a    *)
(* signed type a value with the sign bit set is below empty().             *)
C22_DerivedComparisons ==
    /\ pc = "eq" =>
          (result <=> \A k \in Positions :
                          Bit(self.bits, k) <=> Bit(other.bits, k))
    /\ pc = "lt" =>
          /\ result <=> Weigh(self.bits, BITS) < Weigh(other.bits, BITS)
          /\ (signed /\ Bit(self.bits, BITS - 1) /\ other = empty) => result

\* A signed value with the sign bit set, compared with empty().
C22_Witness ==
    /\ pc = "lt"
    /\ signed
    /\ Bit(self.bits, BITS - 1)
    /\ other = empty
    /\ result = TRUE

(* C23: no mutator touches a bit outside its operand: after insert(o),     *)
(* remove(o), toggle(o) or set(o, c), every bit position that is not set   *)
(* in o.bits holds in self what it held before the call, named or not.     *)
C23_MutatorFrame ==
    pc \in {"insert", "remove", "toggle", "set_true", "set_false"} =>
        \A k \in Positions :
            ~Bit(other.bits, k) => (Bit(self.bits, k) <=> Bit(Before.bits, k))

\* insert changed the value and kept an unnamed bit outside the operand.
C23_Witness ==
    /\ pc = "insert"
    /\ self # Before
    /\ FLAGS # <<>>
    /\ \E k \in Positions :
          ~Declared(k) /\ ~Bit(other.bits, k) /\ Bit(Before.bits, k)
                       /\ Bit(self.bits, k)

----------------------------------------------------------------------------
(* Two ways to take a value out of a set of flags:                         *)
(* $name::all().difference(x) and x.complement().                          *)

AllDifference ==
    /\ pc = "start"
    /\ pc' = "all_difference"
    /\ result' = difference(all, self)
    /\ UNCHANGED <<signed, FLAGS, input, other, writes, self, bits, first, idx, f>>

NextKnown ==
    \/ AllDifference
    \/ Complement

SpecKnown == Init /\ [][NextKnown]_vars

(* C24: for every x, valid or not, all().difference(x) holds exactly the   *)
(* declared bits that x does not hold; from_bits accepts it, and it is the *)
(* value from_bits_truncate makes of complement(x).bits().                 *)
C24_DifferenceFromAll ==
    pc = "all_difference" =>
        /\ \A k \in Positions :
              Bit(result.bits, k) <=> (Declared(k) /\ ~Bit(self.bits, k))
        /\ from_bits(bits_of(result)) = Some(result)
        /\ result = from_bits_truncate(bits_of(complement(self)))

\* x carries an unnamed bit and lacks another: x is not valid, and
\* complement(x) alone is rejected by from_bits.
C24_Witness ==
    /\ pc = "all_difference"
    /\ ~Valid(self.bits)
    /\ result # empty
    /\ from_bits(bits_of(complement(self))) = None
    /\ result # complement(self)

\* all() is all-ones: every bit position of the backing type is declared.
AllOnes == \A k \in Positions : Declared(k)

(* C26: when all() is not all-ones, the complement of a value accepted by  *)
(* from_bits is never accepted by from_bits; when all() is all-ones it     *)
(* always is.                                                              *)
C26_ComplementLeavesValid ==
    (pc = "complement" /\ from_bits(bits_of(self)) = Some(self)) =>
        /\ ~AllOnes => from_bits(bits_of(result)) = None
        /\ AllOnes => from_bits(bits_of(result)) = Some(result)
        /\ Valid(result.bits) <=> AllOnes

\* A non-empty valid value of a type that declares some bit and leaves
\* another out: its complement is rejected.
C26_Witness ==
    /\ pc = "complement"
    /\ from_bits(bits_of(self)) = Some(self)
    /\ self # empty
    /\ ~AllOnes
    /\ from_bits(bits_of(result)) = None

----------------------------------------------------------------------------
(* Sequences of calls on values made through from_bits.  The value starts  *)
(* as one that from_bits accepts, every call takes an operand that         *)
(* from_bits accepts, and a call may follow any other call; the value a    *)
(* pure method returns is the one the sequence goes on with.  The table is *)
(* drawn from the tables of at most one entry: all() of such a table       *)
(* ranges over every mask.                                                 *)

Accepted == {from_bits(b).value : b \in {c \in IntTy : from_bits(c).some}}

InitValid ==
    /\ signed \in BOOLEAN
    /\ FLAGS \in BinTables
    /\ input \in {b \in IntTy : from_bits(b).some}
    /\ self = from_bits(input).value
    /\ other = empty
    /\ writes = NoWrites
    /\ pc = "start"
    /\ result = None
    /\ bits = 0
    /\ first = TRUE
    /\ idx = 0
    /\ f = <<>>

ThenInsert ==
    /\ \E o \in Accepted : self' = insert(self, o)
    /\ pc' = "insert"
    /\ UNCHANGED <<signed, FLAGS, input, other, writes, result, bits, first, idx, f>>

ThenRemove ==
    /\ \E o \in Accepted : self' = remove(self, o)
    /\ pc' = "remove"
    /\ UNCHANGED <<signed, FLAGS, input, other, writes, result, bits, first, idx, f>>

ThenToggle ==
    /\ \E o \in Accepted : self' = toggle(self, o)
    /\ pc' = "toggle"
    /\ UNCHANGED <<signed, FLAGS, input, other, writes, result, bits, first, idx, f>>

ThenSet ==
    /\ \E o \in Accepted : \E condition \in BOOLEAN :
          self' = set(self, o, condition)
    /\ pc' = "set"
    /\ UNCHANGED <<signed, FLAGS, input, other, writes, result, bits, first, idx, f>>

ThenBitOrAssign ==
    /\ \E rhs \in Accepted : self' = bitor_assign(self, rhs)
    /\ pc' = "bitor_assign"
    /\ UNCHANGED <<signed, FLAGS, input, other, writes, result, bits, first, idx, f>>

ThenBitAndAssign ==
    /\ \E rhs \in Accepted : self' = bitand_assign(self, rhs)
    /\ pc' = "bitand_assign"
    /\ UNCHANGED <<signed, FLAGS, input, other, writes, result, bits, first, idx, f>>

ThenBitXorAssign ==
    /\ \E rhs \in Accepted : self' = bitxor_assign(self, rhs)
    /\ pc' = "bitxor_assign"
    /\ UNCHANGED <<signed, FLAGS, input, other, writes, result, bits, first, idx, f>>

ThenSubAssign ==
    /\ \E rhs \in Accepted : self' = sub_assign(self, rhs)
    /\ pc' = "sub_assign"
    /\ UNCHANGED <<signed, FLAGS, input, other, writes, result, bits, first, idx, f>>

\* let x = x.union(o);
ThenUnion ==
    /\ \E o \in Accepted : self' = union(self, o)
    /\ pc' = "union"
    /\ UNCHANGED <<signed, FLAGS, input, other, writes, result, bits, first, idx, f>>

ThenIntersection ==
    /\ \E o \in Accepted : self' = intersection(self, o)
    /\ pc' = "intersection"
    /\ UNCHANGED <<signed, FLAGS, input, other, writes, result, bits, first, idx, f>>

ThenDifference ==
    /\ \E o \in Accepted : self' = difference(self, o)
    /\ pc' = "difference"
    /\ UNCHANGED <<signed, FLAGS, input, other, writes, result, bits, first, idx, f>>

ThenSymmetricDifference ==
    /\ \E o \in Accepted : self' = symmetric_difference(self, o)
    /\ pc' = "symmetric_difference"
    /\ UNCHANGED <<signed, FLAGS, input, other, writes, result, bits, first, idx, f>>

NextValid ==
    \/ ThenInsert
    \/ ThenRemove
    \/ ThenToggle
    \/ ThenSet
    \/ ThenBitOrAssign
    \/ ThenBitAndAssign
    \/ ThenBitXorAssign
    \/ ThenSubAssign
    \/ ThenUnion
    \/ ThenIntersection
    \/ ThenDifference
    \/ ThenSymmetricDifference

SpecValid == InitValid /\ [][NextValid]_vars

(* C25: starting from a value from_bits accepts, after any sequence of     *)
(* insert, remove, toggle, set, |=, &=, ^=, -=, union, intersection,       *)
(* difference and symmetric_difference whose operands from_bits accepts,   *)
(* the value has no bit outside the declared ones and from_bits accepts it.*)
C25_ValidityPreserved ==
    /\ Valid(self.bits)
    /\ from_bits(bits_of(self)) = Some(self)

\* A call changed the value of a type that leaves some bit undeclared,
\* and the value is not empty.
C25_Witness ==
    /\ pc = "toggle"
    /\ ~AllOnes
    /\ self # Flags(input)
    /\ self # empty
    /\ from_bits(bits_of(self)) = Some(self)

----------------------------------------------------------------------------
(* Sequences of insert, remove and set on any value with any operands,     *)
(* with the history of the calls kept per bit position: which kind of call *)
(* wrote the position last ("set" for insert and set(_, true), "clear" for *)
(* remove and set(_, false)), and whether an earlier call wrote it too.    *)
(* These mutators never read __FLAGS; the type is one with the single      *)
(* definition `const A = 1`.                                               *)

OneFlagTables == {t \in BinTables : Len(t) > 0 /\ \A i \in 1..Len(t) : t[i].value = 1}

InitCalls ==
    /\ signed \in BOOLEAN
    /\ FLAGS \in OneFlagTables
    /\ input \in IntTy
    /\ self = from_bits_retain(input)
    /\ other = empty
    /\ writes = NoWrites
    /\ pc = "start"
    /\ result = None
    /\ bits = 0
    /\ first = TRUE
    /\ idx = 0
    /\ f = <<>>

\* The history after a call of the given kind with operand o.
Written(o, kind) ==
    [k \in Positions |->
        IF Bit(o.bits, k)
        THEN [last |-> kind, again |-> writes[k].last # "none"]
        ELSE writes[k]]

CallInsert ==
    /\ \E o \in FlagsValues :
          /\ self' = insert(self, o)
          /\ writes' = Written(o, "set")
    /\ pc' = "insert"
    /\ UNCHANGED <<signed, FLAGS, input, other, result, bits, first, idx, f>>

CallRemove ==
    /\ \E o \in FlagsValues :
          /\ self' = remove(self, o)
          /\ writes' = Written(o, "clear")
    /\ pc' = "remove"
    /\ UNCHANGED <<signed, FLAGS, input, other, result, bits, first, idx, f>>

CallSet ==
    /\ \E o \in FlagsValues : \E condition \in BOOLEAN :
          /\ self' = set(self, o, condition)
          /\ writes' = Written(o, IF condition THEN "set" ELSE "clear")
          /\ pc' = IF condition THEN "set_true" ELSE "set_false"
    /\ UNCHANGED <<signed, FLAGS, input, other, result, bits, first, idx, f>>

NextCalls ==
    \/ CallInsert
    \/ CallRemove
    \/ CallSet

SpecCalls == InitCalls /\ [][NextCalls]_vars

(* C27: after any sequence of insert, remove and set calls, a bit position *)
(* that no operand contained holds its initial state, and any other        *)
(* position is set when the last call whose operand contained it was an    *)
(* insert or a set(_, true), and clear when it was a remove or a           *)
(* set(_, false).  In particular, on any value, insert(o) then remove(o)  *)
(* leaves difference(self, o), remove(o) then insert(o) leaves             *)
(* union(self, o), and two removes leave the same value in either order.   *)
C27_LastWriterWins ==
    /\ \A k \in Positions :
          /\ writes[k].last = "none" =>
                (Bit(self.bits, k) <=> Bit(Before.bits, k))
          /\ writes[k].last = "set" => Bit(self.bits, k)
          /\ writes[k].last = "clear" => ~Bit(self.bits, k)
    /\ pc = "start" =>
          \A o \in FlagsValues :
              /\ remove(insert(self, o), o) = difference(self, o)
              /\ insert(remove(self, o), o) = union(self, o)
              /\ \A p \in FlagsValues :
                    remove(remove(self, o), p) = remove(remove(self, p), o)

\* After a remove: a position that started set, was written before and is
\* now clear; a position written twice that is set; a position never
\* written that is still set.
C27_Witness ==
    /\ pc = "remove"
    /\ \E k \in Positions :
          /\ Bit(Before.bits, k) /\ ~Bit(self.bits, k)
          /\ writes[k].again /\ writes[k].last = "clear"
    /\ \E k \in Positions :
          /\ ~Bit(Before.bits, k) /\ Bit(self.bits, k)
          /\ writes[k].again /\ writes[k].last = "set"
    /\ \E k \in Positions :
          writes[k].last = "none" /\ Bit(self.bits, k)

----------------------------------------------------------------------------
(* Debug::fmt alone, step by step.                                         *)

NextFmt ==
    \/ FmtBegin
    \/ FmtIter
    \/ FmtEnd

SpecFmt == Init /\ [][NextFmt]_vars

\* Bit position k belongs to the value of a name written so far.
Named(k) == \E j \in PiecesOf("name") : Bit(ValueOf(f[j].name), k)

\* The pass is under way or over.
Rendering == pc \in {"fmt_loop", "fmt_done"}

(* C28: at every step of the Debug pass, the bits of the names written so  *)
(* far and the working remainder `bits` have no position in common and     *)
(* together are the raw bits of the value; a step never adds a position to *)
(* the remainder; rendering never changes self.bits.                       *)
C28_DebugPartition ==
    /\ [](Rendering =>
            \A k \in Positions :
                /\ Bit(self.bits, k) <=> (Named(k) \/ Bit(bits, k))
                /\ ~(Named(k) /\ Bit(bits, k)))
    /\ [][/\ Rendering' => self' = self
          /\ (Rendering /\ Rendering') =>
                \A k \in Positions : Bit(bits', k) => Bit(bits, k)]_vars

\* In the middle of the loop: a name is written, its bit has left the
\* remainder, and the remainder is not empty.
C28_Witness ==
    /\ pc = "fmt_loop"
    /\ idx <= Len(FLAGS)
    /\ PiecesOf("name") # {}
    /\ bits # 0
    /\ bits # self.bits
    /\ self = Before

(* C29: Debug names no bit twice: the values of the names written have no  *)
(* bit position in common, and when several declared names have the same   *)
(* single-bit value, a name that is written is the first declared of them. *)
C29_NoBitNamedTwice ==
    Rendering =>
        /\ \A i, j \in PiecesOf("name") :
              i # j => \A k \in Positions :
                          ~(Bit(ValueOf(f[i].name), k) /\ Bit(ValueOf(f[j].name), k))
        /\ \A j \in PiecesOf("name") :
              \A i \in 1..Len(FLAGS) :
                  FLAGS[i].value = ValueOf(f[j].name) => DeclIndex(f[j].name) <= i

\* Two names declared with the same single-bit value, which is set: the
\* output has the first and not the second.
C29_Witness ==
    /\ pc = "fmt_done"
    /\ Len(FLAGS) > 1
    /\ FLAGS[1].value = FLAGS[Len(FLAGS)].value
    /\ OneBit(FLAGS[1].value)
    /\ Bit(self.bits, CHOOSE k \in Positions : Bit(FLAGS[1].value, k))
    /\ \E j \in PiecesOf("name") : f[j].name = FLAGS[1].name
    /\ ~\E j \in PiecesOf("name") : f[j].name = FLAGS[Len(FLAGS)].name

\* The sign bit alone: the minimum value of a signed backing type.
SignBitAlone == 0 - (Modulus \div 2)

(* C30: the single-bit test of Debug reads the bit pattern.  On a signed   *)
(* type the definition equal to the sign bit alone (the minimum value) is  *)
(* single-bit, value - 1 wraps to the maximum value instead of             *)
(* overflowing, and such a definition is written by name whenever the sign *)
(* bit of the value is set; the negative multi-bit definition -1 is not    *)
(* single-bit and is never written by name.                                *)
C30_SingleBitOnPattern ==
    signed =>
        /\ is_single_bit(SignBitAlone)
        /\ wrapping_sub(SignBitAlone, 1) = (Modulus \div 2) - 1
        /\ wrapping_sub(SignBitAlone, 1) \in IntTy
        /\ BITS > 1 => ~is_single_bit(0 - 1)
        /\ pc = "fmt_done" =>
              /\ (/\ \E i \in 1..Len(FLAGS) : FLAGS[i].value = SignBitAlone
                  /\ Bit(self.bits, BITS - 1))
                 => \E j \in PiecesOf("name") : ValueOf(f[j].name) = SignBitAlone
              /\ BITS > 1 =>
                    \A j \in PiecesOf("name") : ValueOf(f[j].name) # 0 - 1

\* A signed type declaring -1 and the sign bit alone, on a value with the
\* sign bit and other bits set: the sign bit is named, -1 is not, and the
\* rest is the hex leftover.
C30_Witness ==
    /\ pc = "fmt_done"
    /\ signed
    /\ \E i \in 1..Len(FLAGS) : FLAGS[i].value = 0 - 1
    /\ \E j \in PiecesOf("name") : ValueOf(f[j].name) = SignBitAlone
    /\ ~\E j \in PiecesOf("name") : ValueOf(f[j].name) = 0 - 1
    /\ PiecesOf("hex") # {}

====
